---------------------------- MODULE Spec2Model ----------------------------
(***************************************************************************)
(* Model of the punctuality analysis of bus_project                        *)
(* (src/bus_project/data_analysis/analyze_data.py).                        *)
(*                                                                         *)
(* The analysis functions are pure: each is an operator computed the way   *)
(* the Python code computes it, and the actions of the specifications call *)
(* them on inputs drawn from bounded sets.                                 *)
(*                                                                         *)
(* Representation                                                          *)
(*   - a coordinate pair is <<lon, lat>> on an integer grid; distances are *)
(*     integers (the floats of the program at the grid's resolution);      *)
(*   - a datetime is [day, hour, minute, second] (whole seconds);          *)
(*   - a string holding a time is [fmt, day, hour, minute, second], where  *)
(*     fmt tells which strptime format the text matches;                   *)
(*   - a stop is the dict [busstop_id, busstop_nr]; a stop key is the      *)
(*     tuple <<busstop_id, busstop_nr>>; Python's None is the value None;  *)
(*   - a dict is a function, a list is a sequence; routes_data[line] is    *)
(*     the sequence of the stop lists of the line's routes in the dict's   *)
(*     iteration order.                                                    *)
(*                                                                         *)
(* The second part models the collector                                    *)
(* (src/bus_project/data_collection): make_safe_request, the two thread    *)
(* pools of collect_stops_data and collect_schedule_data, whose tasks are  *)
(* processes that interleave step by step, process_measurements and        *)
(* collect_routes_data.                                                    *)
(***************************************************************************)
EXTENDS Integers, Sequences, FiniteSets, TLC

VARIABLES
    bus,            \* the vehicle: [Lines, Measurements]
    routes_data,    \* line -> sequence of routes (each a list of stops)
    stops_coords,   \* stop key -> <<lon, lat>>
    schedules,      \* <<busstop_id, busstop_nr, line>> -> list of time strings
    point1,         \* segment start handed to the locator
    point2,         \* segment end handed to the locator
    stops,          \* candidate list handed to nearest_stop_from_list
    closest,        \* <<closest_stop, closest_distance>> the locator returned
    punctualities,  \* list of <<time, stop, distance>>
    times_at_stops, \* list of <<time, stop key>>
    delays,         \* list of delay samples (seconds)
    result,         \* what get_median_delay returned
    exc,            \* the exception that propagated ("" when none)
    pc,             \* position in the call under analysis
    live_data,      \* analyze_punctuality: list of <<bus_id, bus>>
    results_data,   \* analyze_punctuality: list of <<bus_id, line, delay>>
    all_delays,     \* analyze_punctuality: list of delays
    response,       \* what the API does for the request at hand
    returned,       \* what make_safe_request returned
    data,           \* the collector's input: API answer or files read
    stops_data,     \* collect_schedule_data: the content of stops.json
    futures,        \* the tasks submitted to the thread pool
    processed_data, \* the collector's processed_data
    schedule_data,  \* collect_schedule_data's list of records
    all_lines,      \* collect_stops_data's set of lines
    index,          \* how many items the running loop has taken
    file,           \* the JSON written (<<>> until it is)
    minutes,        \* collect_live_data: the number of iterations asked for
    repeats,        \* collect_live_data: retries of the running iteration
    fetches,        \* the answers get_live_data gave in the iteration
    calls           \* how often process_measurements was called

\* the variables of collect_live_data
live == <<minutes, repeats, fetches, calls>>

LiveIdle == minutes = 0 /\ repeats = 0 /\ fetches = <<>> /\ calls = 0

\* the variables of analyze_punctuality and of the collector
outside == <<live_data, results_data, all_delays, response, returned, data,
             stops_data, futures, processed_data, schedule_data, all_lines,
             index, file, live>>

vars == <<bus, routes_data, stops_coords, schedules, point1, point2, stops,
          closest, punctualities, times_at_stops, delays, result, exc, pc,
          outside>>

\* their values while another function is under analysis
OutsideIdle ==
    /\ live_data = <<>>
    /\ results_data = <<>>
    /\ all_delays = <<>>
    /\ response = <<>>
    /\ returned = <<>>
    /\ data = <<>>
    /\ stops_data = <<>>
    /\ LiveIdle
    /\ futures = <<>>
    /\ processed_data = <<>>
    /\ schedule_data = <<>>
    /\ all_lines = {}
    /\ index = 0
    /\ file = <<>>

---------------------------------------------------------------------------
(* Bounds of the model *)

MaxRoutes == 2
MaxStops == 3

---------------------------------------------------------------------------
(* Values *)

\* Python's None where a stop dict is expected
None == [busstop_id |-> "None", busstop_nr |-> "None"]

Stop(id, nr) == [busstop_id |-> id, busstop_nr |-> nr]

Key(stop) == <<stop.busstop_id, stop.busstop_nr>>

Abs(x) == IF x < 0 THEN -x ELSE x

Min2(a, b) == IF a <= b THEN a ELSE b

Max2(a, b) == IF a >= b THEN a ELSE b

\* All sequences over S of length at most n
SeqUpTo(S, n) == UNION {[1..k -> S] : k \in 0..n}

\* Sequences without repeated elements
NoRepeat(s) == \A i, j \in 1..Len(s) : i # j => s[i] # s[j]

\* All dicts with keys among K and values in V
Dicts(K, V) == UNION {[D -> V] : D \in SUBSET K}

---------------------------------------------------------------------------
(* utils.haversine: distance between two coordinate pairs.  The great      *)
(* circle distance is a metric on coordinates; on the integer grid it is   *)
(* taken as the grid metric, which is 0 exactly for identical points.      *)

haversine(lon1, lat1, lon2, lat2) ==
    LET dlon == lon2 - lon1
        dlat == lat2 - lat1
    IN  Abs(dlon) + Abs(dlat)

---------------------------------------------------------------------------
(* nearest_stop_from_list *)

\* line 40: the stop's key is a key of stops_coords
HasCoords(stop, coords) == Key(stop) \in DOMAIN coords

\* lines 46-49: distance from a stop to the nearer end of the segment
SegmentDistance(p1, p2, stop, coords) ==
    LET stop_lon == coords[Key(stop)][1]
        stop_lat == coords[Key(stop)][2]
    IN  Min2(haversine(p1[1], p1[2], stop_lon, stop_lat),
             haversine(p2[1], p2[2], stop_lon, stop_lat))

\* a variant that lets every stop with coordinates replace the closest one
CloserAlways(closest_stop, closest_distance, distance) == TRUE

\* lines 51-53: whether the stop replaces the closest one found so far
Closer(closest_stop, closest_distance, distance) ==
    closest_stop = None \/ distance < closest_distance

\* the for loop of lines 39-53, from index i with the running pair acc
RECURSIVE StopsLoop(_, _, _, _, _, _)
StopsLoop(p1, p2, lst, coords, i, acc) ==
    IF i > Len(lst) THEN acc
    ELSE LET stop == lst[i] IN
         IF ~HasCoords(stop, coords)
         THEN StopsLoop(p1, p2, lst, coords, i + 1, acc)
         ELSE LET distance == SegmentDistance(p1, p2, stop, coords) IN
              IF Closer(acc[1], acc[2], distance)
              THEN StopsLoop(p1, p2, lst, coords, i + 1, <<stop, distance>>)
              ELSE StopsLoop(p1, p2, lst, coords, i + 1, acc)

\* a variant that starts from the first stop of the list instead of None
nearest_stop_from_list_first(p1, p2, lst, coords) ==
    StopsLoop(p1, p2, lst, coords, 1,
              IF lst = <<>> THEN <<None, 0>> ELSE <<lst[1], 0>>)

nearest_stop_from_list(p1, p2, lst, coords) ==
    StopsLoop(p1, p2, lst, coords, 1, <<None, 0>>)

---------------------------------------------------------------------------
(* nearest_stop *)

\* line 90: whether a route's winner replaces the closest one found so far
RouteCloser(closest_stop, closest_distance, current_distance) ==
    closest_stop = None \/ current_distance < closest_distance

\* the for loop of lines 84-92, from route r with the running pair acc
RECURSIVE RoutesLoop(_, _, _, _, _, _)
RoutesLoop(p1, p2, routes, coords, r, acc) ==
    IF r > Len(routes) THEN acc
    ELSE LET current == nearest_stop_from_list(p1, p2, routes[r], coords) IN
         IF RouteCloser(acc[1], acc[2], current[2])
         THEN RoutesLoop(p1, p2, routes, coords, r + 1, current)
         ELSE RoutesLoop(p1, p2, routes, coords, r + 1, acc)

nearest_stop(p1, p2, line, coords, routes) ==
    RoutesLoop(p1, p2, routes[line], coords, 1, <<None, 0>>)

---------------------------------------------------------------------------
(* Times: datetime values, strings holding times, datetime.strptime *)

DateTime(d, h, m, s) == [day |-> d, hour |-> h, minute |-> m, second |-> s]

\* the text "YYYY-MM-DD HH:MM:SS"
DateTimeString(d, h, m, s) ==
    [fmt |-> "%Y-%m-%d %H:%M:%S", day |-> d, hour |-> h, minute |-> m,
     second |-> s]

\* the text "HH:MM:SS"
TimeString(h, m, s) ==
    [fmt |-> "%H:%M:%S", day |-> 0, hour |-> h, minute |-> m, second |-> s]

\* a text that matches neither format
Malformed ==
    [fmt |-> "", day |-> 0, hour |-> 0, minute |-> 0, second |-> 0]

\* datetime.strptime(text, format) raises ValueError unless the text matches
\* the format and its fields are in range
strptime_raises(text, format) ==
    ~ (/\ text.fmt = format
       /\ text.hour \in 0..23
       /\ text.minute \in 0..59
       /\ text.second \in 0..59)

\* the datetime it returns otherwise; a text without a date gets the
\* default date (day 0)
strptime(text, format) ==
    DateTime(IF format = "%H:%M:%S" THEN 0 ELSE text.day,
             text.hour, text.minute, text.second)

\* seconds since the start of day 0, and back: datetime arithmetic
Seconds(t) == ((t.day * 24 + t.hour) * 60 + t.minute) * 60 + t.second

FromSeconds(n) ==
    DateTime(n \div 86400, (n % 86400) \div 3600, (n % 3600) \div 60, n % 60)

---------------------------------------------------------------------------
(* approx_time_at_stop, get_time_distance *)

\* the division of lines 120-122 raises ZeroDivisionError when both
\* distances are 0
approx_time_at_stop_raises(p1, p2, point_stop) ==
    haversine(p1[1], p1[2], point_stop[1], point_stop[2])
        + haversine(p2[1], p2[2], point_stop[1], point_stop[2]) = 0

\* time1 + (time2 - time1) * (d1 / (d1 + d2)), to the whole second
approx_time_at_stop(time1, time2, p1, p2, point_stop) ==
    LET d1 == haversine(p1[1], p1[2], point_stop[1], point_stop[2])
        d2 == haversine(p2[1], p2[2], point_stop[1], point_stop[2])
    IN  FromSeconds(Seconds(time1)
                    + ((Seconds(time2) - Seconds(time1)) * d1) \div (d1 + d2))

\* a variant with the two times taken in the other order
get_time_distance_swapped(time1, time2) ==
    (time1.hour - time2.hour) * 3600
        + (time1.minute - time2.minute) * 60
        + (time1.second - time2.second)

get_time_distance(time1, time2) ==
    (time2.hour - time1.hour) * 3600
        + (time2.minute - time1.minute) * 60
        + (time2.second - time1.second)

---------------------------------------------------------------------------
(* get_punctualities *)

\* the outcome of a call: the value returned, or the exception raised
Returns(v) == [exc |-> "", val |-> v]

Raises(e) == [exc |-> e, val |-> <<>>]

\* the for loop of lines 169-194, from index i (1-based: the pair i-1, i)
\* with the list acc built so far
RECURSIVE PairsLoop(_, _, _, _, _, _)
PairsLoop(measurements, line, routes, coords, i, acc) ==
    IF i > Len(measurements) THEN Returns(acc)
    ELSE LET m1 == measurements[i - 1]
             m2 == measurements[i]
         IN
         IF \/ strptime_raises(m1.Time, "%Y-%m-%d %H:%M:%S")
            \/ strptime_raises(m2.Time, "%Y-%m-%d %H:%M:%S")
         THEN PairsLoop(measurements, line, routes, coords, i + 1, acc)
         ELSE LET time1 == strptime(m1.Time, "%Y-%m-%d %H:%M:%S")
                  time2 == strptime(m2.Time, "%Y-%m-%d %H:%M:%S")
                  p1 == <<m1.Lon, m1.Lat>>
                  p2 == <<m2.Lon, m2.Lat>>
                  found == nearest_stop(p1, p2, line, coords, routes)
              IN
              IF found[1] = None THEN Raises("TypeError")
              ELSE IF ~HasCoords(found[1], coords) THEN Raises("KeyError")
              ELSE LET stop_point == coords[Key(found[1])] IN
                   IF approx_time_at_stop_raises(p1, p2, stop_point)
                   THEN Raises("ZeroDivisionError")
                   ELSE PairsLoop(
                            measurements, line, routes, coords, i + 1,
                            Append(acc,
                                   <<approx_time_at_stop(time1, time2, p1, p2,
                                                         stop_point),
                                     found[1], found[2]>>))

\* a variant of the loop that passes over a pair whose interpolation
\* divides by zero
RECURSIVE PairsLoopCatching(_, _, _, _, _, _)
PairsLoopCatching(measurements, line, routes, coords, i, acc) ==
    IF i > Len(measurements) THEN Returns(acc)
    ELSE LET m1 == measurements[i - 1]
             m2 == measurements[i]
         IN
         IF \/ strptime_raises(m1.Time, "%Y-%m-%d %H:%M:%S")
            \/ strptime_raises(m2.Time, "%Y-%m-%d %H:%M:%S")
         THEN PairsLoopCatching(measurements, line, routes, coords, i + 1,
                                acc)
         ELSE LET time1 == strptime(m1.Time, "%Y-%m-%d %H:%M:%S")
                  time2 == strptime(m2.Time, "%Y-%m-%d %H:%M:%S")
                  p1 == <<m1.Lon, m1.Lat>>
                  p2 == <<m2.Lon, m2.Lat>>
                  found == nearest_stop(p1, p2, line, coords, routes)
              IN
              IF found[1] = None THEN Raises("TypeError")
              ELSE IF ~HasCoords(found[1], coords) THEN Raises("KeyError")
              ELSE LET stop_point == coords[Key(found[1])] IN
                   IF approx_time_at_stop_raises(p1, p2, stop_point)
                   THEN PairsLoopCatching(measurements, line, routes, coords,
                                          i + 1, acc)
                   ELSE PairsLoopCatching(
                            measurements, line, routes, coords, i + 1,
                            Append(acc,
                                   <<approx_time_at_stop(time1, time2, p1, p2,
                                                         stop_point),
                                     found[1], found[2]>>))

get_punctualities_catching(b, routes, coords) ==
    PairsLoopCatching(b.Measurements, b.Lines, routes, coords, 2, <<>>)

get_punctualities(b, routes, coords) ==
    PairsLoop(b.Measurements, b.Lines, routes, coords, 2, <<>>)

---------------------------------------------------------------------------
(* get_times_at_stops *)

\* the dict times_at_stops is the sequence of its items <<key, <<time, dist>>>>
\* in insertion order
HasKey(dict, key) == \E i \in 1..Len(dict) : dict[i][1] = key

IndexOf(dict, key) == CHOOSE i \in 1..Len(dict) : dict[i][1] = key

\* a variant that never looks the key up and stores every estimate
StoreAlways(dict, key, time, dist) == Append(dict, <<key, <<time, dist>>>>)

\* a variant of line 219 that also replaces at the same distance
StoreNotFarther(dict, key, time, dist) ==
    IF ~HasKey(dict, key)
    THEN Append(dict, <<key, <<time, dist>>>>)
    ELSE IF dict[IndexOf(dict, key)][2][2] >= dist
         THEN [dict EXCEPT ![IndexOf(dict, key)] = <<key, <<time, dist>>>>]
         ELSE dict

\* lines 217-220: one estimate put into the dict
Store(dict, key, time, dist) ==
    IF ~HasKey(dict, key)
    THEN Append(dict, <<key, <<time, dist>>>>)
    ELSE IF dict[IndexOf(dict, key)][2][2] > dist
         THEN [dict EXCEPT ![IndexOf(dict, key)] = <<key, <<time, dist>>>>]
         ELSE dict

\* the for loop of lines 215-220
RECURSIVE EstimatesLoop(_, _, _)
EstimatesLoop(estimates, i, dict) ==
    IF i > Len(estimates) THEN dict
    ELSE EstimatesLoop(estimates, i + 1,
                       Store(dict, Key(estimates[i][2]), estimates[i][1],
                             estimates[i][3]))

\* Python's order of the str values used as busstop_id and busstop_nr
StrOrder == <<"01", "02", "1", "2">>

StrRank(x) == CHOOSE i \in 1..Len(StrOrder) : StrOrder[i] = x

\* a variant that compares the times only
VisitLessByTime(a, b) == Seconds(a[1]) < Seconds(b[1])

\* (time, key) < (time', key') as Python compares tuples
VisitLess(a, b) ==
    \/ Seconds(a[1]) < Seconds(b[1])
    \/ /\ Seconds(a[1]) = Seconds(b[1])
       /\ \/ StrRank(a[2][1]) < StrRank(b[2][1])
          \/ /\ a[2][1] = b[2][1]
             /\ StrRank(a[2][2]) < StrRank(b[2][2])

\* x put into the sorted list s after the elements not greater than it
RECURSIVE Insert(_, _)
Insert(s, x) ==
    IF s = <<>> THEN <<x>>
    ELSE IF VisitLess(x, s[1]) THEN <<x>> \o s
         ELSE <<s[1]>> \o Insert(Tail(s), x)

\* sorted(list): a stable sort by VisitLess
RECURSIVE sorted(_)
sorted(s) ==
    IF s = <<>> THEN <<>>
    ELSE Insert(sorted(SubSeq(s, 1, Len(s) - 1)), s[Len(s)])

get_times_at_stops(estimates) ==
    LET dict == EstimatesLoop(estimates, 1, <<>>)
        list == [i \in 1..Len(dict) |-> <<dict[i][2][1], dict[i][1]>>]
    IN  sorted(list)

---------------------------------------------------------------------------
(* get_list_delays *)

\* line 266: the bound on how far before the estimated time a scheduled
\* time may lie
EarlyTolerance == -120

\* a variant of the test of line 266 that keeps every difference
WithinToleranceAll(difference) == TRUE

\* line 266
WithinTolerance(difference) == difference > EarlyTolerance

\* a variant of line 267 without the clamp at 0
ClampNone(difference) == difference

\* line 267: max(0, time_difference_seconds)
Clamp(difference) == Max2(0, difference)

\* the loop of lines 257-267 over the schedule of one visit, from entry j
\* with the differences kept so far
RECURSIVE SchedLoop(_, _, _, _)
SchedLoop(time, schedule, j, differences) ==
    IF j > Len(schedule) THEN differences
    ELSE LET text == schedule[j].time IN
         IF strptime_raises(text, "%H:%M:%S")
         THEN SchedLoop(time, schedule, j + 1, differences)
         ELSE LET difference ==
                      get_time_distance(time, strptime(text, "%H:%M:%S"))
              IN  IF WithinTolerance(difference)
                  THEN SchedLoop(time, schedule, j + 1,
                                 Append(differences, Clamp(difference)))
                  ELSE SchedLoop(time, schedule, j + 1, differences)

\* a variant of min that takes the first element
minFirst(list) == list[1]

\* min(list) of a list that is not empty
min(list) ==
    CHOOSE x \in {list[i] : i \in 1..Len(list)} :
        \A i \in 1..Len(list) : x <= list[i]

\* the loop of lines 249-270 over the visits, from visit i with the delays
\* appended so far
RECURSIVE VisitsLoop(_, _, _, _, _)
VisitsLoop(line, scheds, visits, i, acc) ==
    IF i > Len(visits) THEN Returns(acc)
    ELSE LET time == visits[i][1]
             stop == visits[i][2]
             key == <<stop[1], stop[2], line>>
         IN
         IF key \notin DOMAIN scheds THEN Raises("KeyError")
         ELSE LET differences == SchedLoop(time, scheds[key], 1, <<>>) IN
              IF Len(differences) > 0
              THEN VisitsLoop(line, scheds, visits, i + 1,
                              Append(acc, min(differences)))
              ELSE VisitsLoop(line, scheds, visits, i + 1, acc)

\* a variant of the loop that passes over a visit without timetable entry
RECURSIVE VisitsLoopSkipping(_, _, _, _, _)
VisitsLoopSkipping(line, scheds, visits, i, acc) ==
    IF i > Len(visits) THEN Returns(acc)
    ELSE LET time == visits[i][1]
             stop == visits[i][2]
             key == <<stop[1], stop[2], line>>
         IN
         IF key \notin DOMAIN scheds
         THEN VisitsLoopSkipping(line, scheds, visits, i + 1, acc)
         ELSE LET differences == SchedLoop(time, scheds[key], 1, <<>>) IN
              IF Len(differences) > 0
              THEN VisitsLoopSkipping(line, scheds, visits, i + 1,
                                      Append(acc, min(differences)))
              ELSE VisitsLoopSkipping(line, scheds, visits, i + 1, acc)

get_list_delays_skipping(b, scheds, visits) ==
    VisitsLoopSkipping(b.Lines, scheds, visits, 1, <<>>)

get_list_delays(b, scheds, visits) ==
    VisitsLoop(b.Lines, scheds, visits, 1, <<>>)

---------------------------------------------------------------------------
(* get_median_delay *)

\* line 308: the bound a median delay must stay below
MaxDelay == 3600

\* Python's None where get_median_delay returns no delay
NoDelay == <<>>

\* the float num / den
Float(num, den) == <<num, den>>

RECURSIVE InsertInt(_, _)
InsertInt(s, x) ==
    IF s = <<>> THEN <<x>>
    ELSE IF x < s[1] THEN <<x>> \o s
         ELSE <<s[1]>> \o InsertInt(Tail(s), x)

RECURSIVE SortInts(_)
SortInts(s) ==
    IF s = <<>> THEN <<>>
    ELSE InsertInt(SortInts(SubSeq(s, 1, Len(s) - 1)), s[Len(s)])

\* twice numpy.median(list): the middle element of the sorted list, or the
\* mean of the two middle elements
median_twice(list) ==
    LET srt == SortInts(list)
        n == Len(list)
    IN  IF n % 2 = 1 THEN 2 * srt[(n + 1) \div 2]
        ELSE srt[n \div 2] + srt[n \div 2 + 1]

\* a variant of the test of line 308 that accepts the bound itself
AcceptedUpTo(final_delay_twice) == final_delay_twice <= 2 * MaxDelay

\* line 308: final_delay < 3600
Accepted(final_delay_twice) == final_delay_twice < 2 * MaxDelay

\* a variant without the test of line 308
ReturnedDelayUnbounded(list) ==
    IF Len(list) = 0 THEN NoDelay
    ELSE Float(median_twice(list), 2 * 60)

\* lines 303-311: the value returned for a list of delays
ReturnedDelay(list) ==
    IF Len(list) = 0 THEN NoDelay
    ELSE LET final_delay_twice == median_twice(list) IN
         IF Accepted(final_delay_twice)
         THEN Float(final_delay_twice, 2 * 60)
         ELSE NoDelay

\* lines 294-311: get_median_delay as one function of its arguments
get_median_delay(b, routes, coords, scheds) ==
    IF b.Lines \notin DOMAIN routes THEN Returns(NoDelay)
    ELSE LET p == get_punctualities(b, routes, coords) IN
         IF p.exc # "" THEN Raises(p.exc)
         ELSE LET d == get_list_delays(b, scheds, get_times_at_stops(p.val))
              IN  IF d.exc # "" THEN Raises(d.exc)
                  ELSE Returns(ReturnedDelay(d.val))

\* The statements of get_median_delay, one action each

CheckLine ==
    /\ pc = "get_median_delay"
    /\ IF bus.Lines \notin DOMAIN routes_data
       THEN result' = NoDelay /\ pc' = "returned"
       ELSE result' = result /\ pc' = "get_punctualities"
    /\ UNCHANGED <<outside, bus, routes_data, stops_coords, schedules, point1,
                   point2, stops, closest, punctualities, times_at_stops, delays,
                   exc>>

GetPunctualities ==
    /\ pc = "get_punctualities"
    /\ LET r == get_punctualities(bus, routes_data, stops_coords) IN
       IF r.exc # ""
       THEN exc' = r.exc /\ pc' = "raised" /\ UNCHANGED punctualities
       ELSE punctualities' = r.val /\ pc' = "get_times_at_stops"
            /\ UNCHANGED exc
    /\ UNCHANGED <<outside, bus, routes_data, stops_coords, schedules, point1,
                   point2, stops, closest, times_at_stops, delays, result>>

GetTimesAtStops ==
    /\ pc = "get_times_at_stops"
    /\ times_at_stops' = get_times_at_stops(punctualities)
    /\ pc' = "get_list_delays"
    /\ UNCHANGED <<outside, bus, routes_data, stops_coords, schedules, point1,
                   point2, stops, closest, punctualities, delays, result, exc>>

\* a variant of the call of line 303 that uses the timetable up
GetListDelaysConsuming ==
    /\ pc = "get_list_delays"
    /\ LET r == get_list_delays(bus, schedules, times_at_stops) IN
       IF r.exc # ""
       THEN exc' = r.exc /\ pc' = "raised" /\ UNCHANGED delays
       ELSE delays' = r.val /\ pc' = "median" /\ UNCHANGED exc
    /\ schedules' = <<>>
    /\ UNCHANGED <<outside, bus, routes_data, stops_coords, point1, point2,
                   stops, closest, punctualities, times_at_stops, result>>

GetListDelays ==
    /\ pc = "get_list_delays"
    /\ LET r == get_list_delays(bus, schedules, times_at_stops) IN
       IF r.exc # ""
       THEN exc' = r.exc /\ pc' = "raised" /\ UNCHANGED delays
       ELSE delays' = r.val /\ pc' = "median" /\ UNCHANGED exc
    /\ UNCHANGED <<outside, bus, routes_data, stops_coords, schedules, point1,
                   point2, stops, closest, punctualities, times_at_stops, result>>

ReturnMedian ==
    /\ pc = "median"
    /\ result' = ReturnedDelay(delays)
    /\ pc' = "returned"
    /\ UNCHANGED <<outside, bus, routes_data, stops_coords, schedules, point1,
                   point2, stops, closest, punctualities, times_at_stops, delays,
                   exc>>

---------------------------------------------------------------------------
(* Inputs of the locator *)

StopKeys == {<<"1", "01">>, <<"1", "02">>, <<"2", "01">>}

StopDicts == {Stop(k[1], k[2]) : k \in StopKeys}

Lines == {"A"}

SegmentPoints == {<<4, 0>>, <<1, 0>>}

StopPoints == {<<1, 0>>, <<4, 2>>}

StopLists == {s \in SeqUpTo(StopDicts, MaxStops) : NoRepeat(s)}

RouteLists == SeqUpTo(StopLists, MaxRoutes)

StopTables == Dicts(StopKeys, StopPoints)

---------------------------------------------------------------------------
(* The locator called on a segment: SpecLocator *)

InitLocator ==
    /\ OutsideIdle
    /\ bus = [Lines |-> "A", Measurements |-> <<>>]
    /\ routes_data \in [Lines -> RouteLists]
    /\ stops_coords \in StopTables
    /\ schedules = <<>>
    /\ point1 = <<0, 0>>
    /\ point2 \in SegmentPoints
    /\ stops = <<>>
    /\ closest = <<None, 0>>
    /\ punctualities = <<>>
    /\ times_at_stops = <<>>
    /\ delays = <<>>
    /\ result = NoDelay
    /\ exc = ""
    /\ pc = "call"

\* nearest_stop_from_list(point1, point2, stops, stops_coords) on one of
\* the line's routes
CallNearestStopFromList ==
    /\ pc = "call"
    /\ \E r \in 1..Len(routes_data[bus.Lines]) :
          /\ stops' = routes_data[bus.Lines][r]
          /\ closest' = nearest_stop_from_list(
                            point1, point2, routes_data[bus.Lines][r],
                            stops_coords)
    /\ pc' = "nearest_stop_from_list"
    /\ UNCHANGED <<outside, bus, routes_data, stops_coords, schedules, point1,
                   point2,
                   punctualities, times_at_stops, delays, result, exc>>

\* nearest_stop(point1, point2, line, stops_coords, routes_data)
CallNearestStop ==
    /\ pc = "call"
    /\ closest' = nearest_stop(point1, point2, bus.Lines, stops_coords,
                               routes_data)
    /\ pc' = "nearest_stop"
    /\ UNCHANGED <<outside, bus, routes_data, stops_coords, schedules, point1,
                   point2,
                   stops, punctualities, times_at_stops, delays, result, exc>>

NextLocator == CallNearestStopFromList \/ CallNearestStop

SpecLocator == InitLocator /\ [][NextLocator]_vars

---------------------------------------------------------------------------
(* The reducer called on a list of estimates: SpecReducer *)

MaxEstimates == 3

EstimateTimes == {DateTime(1, 12, 0, 0), DateTime(1, 12, 5, 0)}

EstimateDistances == {1, 3}

Estimates ==
    {<<t, stop, d>> : t \in EstimateTimes, stop \in StopDicts,
                      d \in EstimateDistances}

InitReducer ==
    /\ OutsideIdle
    /\ bus = [Lines |-> "A", Measurements |-> <<>>]
    /\ routes_data = [l \in Lines |-> <<>>]
    /\ stops_coords = <<>>
    /\ schedules = <<>>
    /\ point1 = <<0, 0>>
    /\ point2 = <<0, 0>>
    /\ stops = <<>>
    /\ closest = <<None, 0>>
    /\ punctualities \in SeqUpTo(Estimates, MaxEstimates)
    /\ times_at_stops = <<>>
    /\ delays = <<>>
    /\ result = NoDelay
    /\ exc = ""
    /\ pc = "get_times_at_stops"

NextReducer == GetTimesAtStops

SpecReducer == InitReducer /\ [][NextReducer]_vars

---------------------------------------------------------------------------
(* The delay calculator and the median called on a list of visits:         *)
(* SpecDelays                                                              *)

MaxVisits == 2
MaxSched == 2

VisitTimes ==
    {DateTime(1, 10, 0, 0), DateTime(1, 11, 0, 0), DateTime(1, 11, 58, 0),
     DateTime(1, 12, 1, 0), DateTime(1, 12, 2, 0)}

VisitKeys == {<<"1", "01">>, <<"1", "02">>}

Visits == {<<t, k>> : t \in VisitTimes, k \in VisitKeys}

\* two times of day, and a text with a date, which "%H:%M:%S" does not match
ScheduleTexts ==
    {TimeString(12, 0, 0), TimeString(11, 0, 1), DateTimeString(1, 12, 0, 0)}

ScheduleLists == SeqUpTo({[time |-> x] : x \in ScheduleTexts}, MaxSched)

\* timetables that give the same schedule to the stops they list
ScheduleTables ==
    {[k \in {<<v[1], v[2], "A">> : v \in D} |-> lst] :
         D \in SUBSET VisitKeys, lst \in ScheduleLists}

InitDelays ==
    /\ OutsideIdle
    /\ bus = [Lines |-> "A", Measurements |-> <<>>]
    /\ routes_data = [l \in Lines |-> <<>>]
    /\ stops_coords = <<>>
    /\ schedules \in ScheduleTables
    /\ point1 = <<0, 0>>
    /\ point2 = <<0, 0>>
    /\ stops = <<>>
    /\ closest = <<None, 0>>
    /\ punctualities = <<>>
    /\ times_at_stops \in SeqUpTo(Visits, MaxVisits)
    /\ delays = <<>>
    /\ result = NoDelay
    /\ exc = ""
    /\ pc = "get_list_delays"

NextDelays == GetListDelays \/ ReturnMedian

SpecDelays == InitDelays /\ [][NextDelays]_vars

---------------------------------------------------------------------------
(* get_median_delay called on a vehicle: Spec *)

MaxMeasurements == 3

Measurement(time, lat, lon) == [Time |-> time, Lat |-> lat, Lon |-> lon]

\* three timed positions along lat 0 and one with a malformed time
Measurements ==
    {Measurement(DateTimeString(1, 11, 50, 0), 0, 0),
     Measurement(DateTimeString(1, 12, 0, 0), 0, 2),
     Measurement(DateTimeString(1, 12, 10, 0), 0, 4),
     Measurement(Malformed, 0, 2)}

\* the stops "1"/"01" and "1"/"02" have coordinates, "2"/"01" has none
VehicleStopTable ==
    (<<"1", "01">> :> <<0, 0>>) @@ (<<"1", "02">> :> <<4, 0>>)

\* the routes of line "A"; line "B" has no entry
VehicleRouteLists ==
    {<< >>,
     << <<Stop("1", "01"), Stop("1", "02")>> >>,
     << <<Stop("2", "01")>> >>,
     << <<Stop("1", "01")>>, <<Stop("2", "01")>> >>,
     << <<Stop("2", "01"), Stop("1", "02")>>, <<Stop("1", "01")>> >>}

VehicleSchedule ==
    <<[time |-> TimeString(12, 0, 0)], [time |-> TimeString(11, 0, 1)]>>

VehicleScheduleTables ==
    {(<<"1", "01", "A">> :> VehicleSchedule)
         @@ (<<"1", "02", "A">> :> VehicleSchedule),
     (<<"1", "01", "A">> :> VehicleSchedule),
     (<<"1", "01", "A">> :> << >>)
         @@ (<<"1", "02", "A">> :> VehicleSchedule)}

Init ==
    /\ OutsideIdle
    /\ bus \in [Lines : {"A", "B"},
                Measurements : SeqUpTo(Measurements, MaxMeasurements)]
    /\ routes_data \in [Lines -> VehicleRouteLists]
    /\ stops_coords = VehicleStopTable
    /\ schedules \in VehicleScheduleTables
    /\ point1 = <<0, 0>>
    /\ point2 = <<0, 0>>
    /\ stops = <<>>
    /\ closest = <<None, 0>>
    /\ punctualities = <<>>
    /\ times_at_stops = <<>>
    /\ delays = <<>>
    /\ result = NoDelay
    /\ exc = ""
    /\ pc = "get_median_delay"

Next ==
    \/ CheckLine
    \/ GetPunctualities
    \/ GetTimesAtStops
    \/ GetListDelays
    \/ ReturnMedian

Spec == Init /\ [][Next]_vars

---------------------------------------------------------------------------
(* Properties of the locator *)

\* the stops of a list that have coordinates
KnownOf(lst) == {lst[i] : i \in {j \in 1..Len(lst) : HasCoords(lst[j], stops_coords)}}

\* the stops with coordinates over all routes of the vehicle's line
KnownOfLine ==
    UNION {KnownOf(routes_data[bus.Lines][r]) :
               r \in 1..Len(routes_data[bus.Lines])}

Dist(stop) == SegmentDistance(point1, point2, stop, stops_coords)

\* C3: a stop returned by nearest_stop_from_list or by nearest_stop that is
\* not None has its key (busstop_id, busstop_nr) in stops_coords.
C3_ReturnedStopHasCoords ==
    (pc \in {"nearest_stop_from_list", "nearest_stop"} /\ closest[1] # None)
        => Key(closest[1]) \in DOMAIN stops_coords

\* nearest_stop returned a stop although a route of the line lists a stop
\* without coordinates
C3_Witness ==
    /\ pc = "nearest_stop"
    /\ closest[1] # None
    /\ \E r \in 1..Len(routes_data[bus.Lines]) :
          \E i \in 1..Len(routes_data[bus.Lines][r]) :
             ~HasCoords(routes_data[bus.Lines][r][i], stops_coords)

\* C4 (as claimed): for a line of routes_data, nearest_stop returns the
\* stop with the smallest min(distance(A, stop), distance(B, stop)) among
\* all stops with coordinates over all routes of the line, with that
\* distance, also when some route has no stop with coordinates.
C4_NearestStopIsLineMinimum ==
    (pc = "nearest_stop" /\ KnownOfLine # {})
        => /\ closest[1] \in KnownOfLine
           /\ closest[2] = Dist(closest[1])
           /\ \A s \in KnownOfLine : closest[2] <= Dist(s)

\* C5: nearest_stop_from_list returns a stop of the list that has
\* coordinates and minimises min(distance(A, stop), distance(B, stop)) over
\* the stops of the list with coordinates, together with exactly that
\* distance; stops without coordinates are passed over, and a list with no
\* stop with coordinates gives None.
C5_NearestOfListIsMinimum ==
    pc = "nearest_stop_from_list"
        => IF KnownOf(stops) = {}
           THEN closest[1] = None
           ELSE /\ closest[1] \in KnownOf(stops)
                /\ closest[2] = Dist(closest[1])
                /\ \A s \in KnownOf(stops) : closest[2] <= Dist(s)

\* the list holds a stop without coordinates and then two stops with
\* coordinates, the later of them strictly closer and returned
C5_Witness ==
    /\ pc = "nearest_stop_from_list"
    /\ Len(stops) = 3
    /\ ~HasCoords(stops[1], stops_coords)
    /\ HasCoords(stops[2], stops_coords)
    /\ HasCoords(stops[3], stops_coords)
    /\ Dist(stops[3]) < Dist(stops[2])
    /\ closest = <<stops[3], Dist(stops[3])>>

---------------------------------------------------------------------------
(* Properties of the reducer *)

\* C1: get_times_at_stops returns at most one visit per stop key
\* (busstop_id, busstop_nr): no two entries of its output carry the same key.
C1_OneVisitPerStopKey ==
    pc = "get_list_delays"
        => \A i, j \in 1..Len(times_at_stops) :
               i # j => times_at_stops[i][2] # times_at_stops[j][2]

\* the reducer ran on three estimates, two of them for the same stop key,
\* and returned two visits
C1_Witness ==
    /\ pc = "get_list_delays"
    /\ Len(punctualities) = 3
    /\ \E i, j \in 1..3 :
          i # j /\ Key(punctualities[i][2]) = Key(punctualities[j][2])
    /\ Len(times_at_stops) = 2

---------------------------------------------------------------------------
(* Properties of the delay calculator and of the median *)

SecondsOfDay(t) == Seconds(t) % 86400

\* the timetable entry of a visit
ScheduleOf(visit) == schedules[<<visit[2][1], visit[2][2], bus.Lines>>]

\* the time-of-day differences s - estimated, in seconds, over the scheduled
\* times s of the visit's timetable entry that are times of day
Differences(visit) ==
    {SecondsOfDay(strptime(ScheduleOf(visit)[j].time, "%H:%M:%S"))
         - SecondsOfDay(visit[1]) :
       j \in {k \in 1..Len(ScheduleOf(visit)) :
                 ~strptime_raises(ScheduleOf(visit)[k].time, "%H:%M:%S")}}

\* max(0, d) over the differences d greater than -120 seconds
Candidates(visit) == {Max2(0, d) : d \in {x \in Differences(visit) : x > -120}}

SetMin(S) == CHOOSE x \in S : \A y \in S : x <= y

\* C2: every delay sample in the list returned by get_list_delays is
\* greater than or equal to 0.
C2_DelaysNonNegative ==
    pc \in {"median", "returned"}
        => \A i \in 1..Len(delays) : delays[i] >= 0

\* get_list_delays returned a sample for a visit estimated after one of its
\* scheduled times, within the tolerance
C2_Witness ==
    /\ pc = "median"
    /\ Len(times_at_stops) = 1
    /\ Len(delays) = 1
    /\ \E d \in Differences(times_at_stops[1]) : d < 0 /\ d > -120

\* the only visit, with an only scheduled time that is a time of day
OneVisitOneTime ==
    /\ Len(times_at_stops) = 1
    /\ <<times_at_stops[1][2][1], times_at_stops[1][2][2], bus.Lines>>
           \in DOMAIN schedules
    /\ Len(ScheduleOf(times_at_stops[1])) = 1
    /\ Cardinality(Differences(times_at_stops[1])) = 1

Sampled == SelectSeq(times_at_stops, LAMBDA v : Candidates(v) # {})

OfRank(list, k) ==
    CHOOSE v \in {list[i] : i \in 1..Len(list)} :
        /\ Cardinality({i \in 1..Len(list) : list[i] < v}) < k
        /\ Cardinality({i \in 1..Len(list) : list[i] <= v}) >= k

MedianTwice(list) ==
    OfRank(list, (Len(list) + 1) \div 2) + OfRank(list, Len(list) \div 2 + 1)

---------------------------------------------------------------------------
(* Properties of get_median_delay on a vehicle *)

\* C6 (as claimed): when no stop of any route of the vehicle's line has
\* coordinates, get_punctualities emits no estimate and does not raise.
C6_NoStopFoundSkipsSegment ==
    (bus.Lines \in DOMAIN routes_data /\ KnownOfLine = {})
        => /\ pc # "raised"
           /\ punctualities = <<>>

\* C7 (as claimed): get_median_delay ends by returning a delay or None; no
\* input makes get_punctualities, get_times_at_stops or get_list_delays
\* raise.
C7_NeverRaises == pc # "raised" /\ exc = ""

---------------------------------------------------------------------------
(* analyze_punctuality: the loop over the vehicles of live_data, each       *)
(* analysed by the statements of get_median_delay: SpecFleet               *)

MaxVehicles == 2

\* the keys of live_data, in the dict's iteration order
BusIds == <<"1001", "1002", "1003", "1004">>

FleetBuses ==
    {[Lines |-> "B",
      Measurements |-> <<Measurement(DateTimeString(1, 11, 50, 0), 0, 0),
                         Measurement(DateTimeString(1, 12, 0, 0), 0, 2)>>],
     [Lines |-> "A",
      Measurements |-> <<Measurement(DateTimeString(1, 11, 50, 0), 0, 0),
                         Measurement(DateTimeString(1, 12, 0, 0), 0, 2)>>],
     [Lines |-> "A",
      Measurements |-> <<Measurement(DateTimeString(1, 12, 0, 0), 0, 2),
                         Measurement(DateTimeString(1, 12, 10, 0), 0, 4)>>],
     [Lines |-> "A",
      Measurements |-> <<Measurement(DateTimeString(1, 11, 55, 0), 0, 0),
                         Measurement(DateTimeString(1, 12, 5, 0), 0, 2)>>],
     [Lines |-> "A",
      Measurements |-> <<Measurement(DateTimeString(1, 11, 50, 0), 0, 0),
                         Measurement(Malformed, 0, 2),
                         Measurement(DateTimeString(1, 12, 0, 0), 0, 2),
                         Measurement(DateTimeString(1, 12, 10, 0), 0, 4)>>]}

InitFleet ==
    /\ live_data \in
           {[i \in 1..Len(s) |-> <<BusIds[i], s[i]>>] :
                s \in SeqUpTo(FleetBuses, MaxVehicles)}
    /\ results_data = <<>>
    /\ all_delays = <<>>
    /\ index = 0
    /\ response = <<>>
    /\ returned = <<>>
    /\ data = <<>>
    /\ stops_data = <<>>
    /\ LiveIdle
    /\ futures = <<>>
    /\ processed_data = <<>>
    /\ schedule_data = <<>>
    /\ all_lines = {}
    /\ file = <<>>
    /\ bus = [Lines |-> "A", Measurements |-> <<>>]
    /\ routes_data \in [Lines -> VehicleRouteLists]
    /\ stops_coords = VehicleStopTable
    /\ schedules \in VehicleScheduleTables
    /\ point1 = <<0, 0>>
    /\ point2 = <<0, 0>>
    /\ stops = <<>>
    /\ closest = <<None, 0>>
    /\ punctualities = <<>>
    /\ times_at_stops = <<>>
    /\ delays = <<>>
    /\ result = NoDelay
    /\ exc = ""
    /\ pc = "for"

\* lines 346-349: the loop takes the next vehicle and calls get_median_delay
\* on it, or ends
NextVehicle ==
    /\ pc = "for"
    /\ IF index < Len(live_data)
       THEN /\ bus' = live_data[index + 1][2]
            /\ index' = index + 1
            /\ pc' = "get_median_delay"
       ELSE /\ pc' = "done"
            /\ UNCHANGED <<bus, index>>
    /\ punctualities' = <<>>
    /\ times_at_stops' = <<>>
    /\ delays' = <<>>
    /\ result' = NoDelay
    /\ UNCHANGED <<routes_data, stops_coords, schedules, point1, point2,
                   stops, closest, exc, live_data, results_data, all_delays,
                   response, returned, data, stops_data, live, futures,
                   processed_data, schedule_data, all_lines, file>>

\* a variant of lines 350-352 that records every vehicle
RecordsDelayAlways(delay) == TRUE

\* line 350: whether the delay is recorded
RecordsDelay(delay) == delay # NoDelay

\* lines 350-352: the delay returned is recorded unless it is None
RecordDelay ==
    /\ pc = "returned"
    /\ IF RecordsDelay(result)
       THEN /\ all_delays' = Append(all_delays, result)
            /\ results_data' =
                   Append(results_data,
                          <<live_data[index][1], bus.Lines, result>>)
       ELSE UNCHANGED <<all_delays, results_data>>
    /\ pc' = "for"
    /\ UNCHANGED <<bus, routes_data, stops_coords, schedules, point1, point2,
                   stops, closest, punctualities, times_at_stops, delays,
                   result, exc, live_data, response, returned, data,
                   stops_data, live, futures, processed_data, schedule_data,
                   all_lines, index, file>>

NextFleet ==
    \/ NextVehicle
    \/ CheckLine
    \/ GetPunctualities
    \/ GetTimesAtStops
    \/ GetListDelays
    \/ ReturnMedian
    \/ RecordDelay

SpecFleet == InitFleet /\ [][NextFleet]_vars

---------------------------------------------------------------------------
(* Properties of analyze_punctuality *)

\* C11: for a vehicle whose line is not a key of routes_data,
\* get_median_delay returns None without running get_punctualities,
\* get_times_at_stops or get_list_delays and without raising, and
\* analyze_punctuality records no result for the vehicle.
C11_UnknownLineIsLeftOut ==
    /\ (pc \notin {"for", "done"} /\ bus.Lines \notin DOMAIN routes_data)
           => /\ pc \in {"get_median_delay", "returned"}
              /\ exc = ""
              /\ punctualities = <<>>
              /\ times_at_stops = <<>>
              /\ delays = <<>>
              /\ pc = "returned" => result = NoDelay
    /\ \A k \in 1..Len(results_data) :
           \A i \in 1..Len(live_data) :
               live_data[i][1] = results_data[k][1]
                   => live_data[i][2].Lines \in DOMAIN routes_data

\* the loop went past a vehicle of a line without routes and recorded a
\* later vehicle
C11_Witness ==
    /\ pc = "for"
    /\ index = 2
    /\ live_data[1][2].Lines \notin DOMAIN routes_data
    /\ Len(results_data) = 1
    /\ results_data[1][1] = live_data[2][1]

\* the consecutive pairs of measurements whose two timestamps parse
ParsingPairs(measurements) ==
    {i \in 2..Len(measurements) :
         /\ ~strptime_raises(measurements[i - 1].Time, "%Y-%m-%d %H:%M:%S")
         /\ ~strptime_raises(measurements[i].Time, "%Y-%m-%d %H:%M:%S")}

\* C12 (as claimed): on a line with a stop that has coordinates,
\* get_punctualities returns one estimate per consecutive pair of
\* measurements whose two timestamps parse, pairs with a malformed
\* timestamp being skipped and the pairs after them still processed.
C12_OneEstimatePerParsingPair ==
    (/\ pc \notin {"get_median_delay", "get_punctualities"}
     /\ bus.Lines \in DOMAIN routes_data
     /\ KnownOfLine # {})
        => /\ exc \notin {"TypeError", "ZeroDivisionError"}
           /\ Len(punctualities) = Cardinality(ParsingPairs(bus.Measurements))

\* the keys (busstop_id, busstop_nr) in Python's order of tuples of str
KeyBefore(k1, k2) ==
    \/ StrRank(k1[1]) < StrRank(k2[1])
    \/ k1[1] = k2[1] /\ StrRank(k1[2]) < StrRank(k2[2])

\* the position of the first estimate of stop key k in the input
FirstEstimate(k) ==
    CHOOSE i \in 1..Len(punctualities) :
        /\ Key(punctualities[i][2]) = k
        /\ \A j \in 1..(i - 1) : Key(punctualities[j][2]) # k

\* C13: the list returned by get_times_at_stops is in ascending order of
\* the estimated timestamp, and entries with equal timestamps are in the
\* order of their stop keys.
C13_SortedByTimeThenKey ==
    pc = "get_list_delays"
        => \A i \in 1..(Len(times_at_stops) - 1) :
               LET a == times_at_stops[i]
                   b == times_at_stops[i + 1]
               IN  \/ Seconds(a[1]) < Seconds(b[1])
                   \/ Seconds(a[1]) = Seconds(b[1]) /\ KeyBefore(a[2], b[2])

\* two stops with the same estimated time were met in the opposite order of
\* their keys, and a stop with a later time was met before both
C13_Witness ==
    /\ pc = "get_list_delays"
    /\ Len(times_at_stops) = 3
    /\ Seconds(times_at_stops[1][1]) = Seconds(times_at_stops[2][1])
    /\ Seconds(times_at_stops[2][1]) < Seconds(times_at_stops[3][1])
    /\ FirstEstimate(times_at_stops[2][2]) < FirstEstimate(times_at_stops[1][2])
    /\ FirstEstimate(times_at_stops[3][2]) < FirstEstimate(times_at_stops[2][2])

\* the delay get_median_delay returns for the vehicle with key id, taken
\* alone
DelayAlone(id) ==
    LET i == CHOOSE j \in 1..Len(live_data) : live_data[j][1] = id
    IN  get_median_delay(live_data[i][2], routes_data, stops_coords, schedules)

\* C15: no step of the analysis of a vehicle changes the routes table, the
\* stop table, the timetable or a trajectory, and the delay recorded for a
\* vehicle is the delay get_median_delay gives for it alone, whatever
\* vehicles were analysed before it.
C15_InputsUnchangedResultsOrderFree ==
    /\ [][/\ routes_data' = routes_data
          /\ stops_coords' = stops_coords
          /\ schedules' = schedules
          /\ live_data' = live_data]_vars
    /\ [](/\ pc \notin {"for", "done"} => bus = live_data[index][2]
          /\ \A k \in 1..Len(results_data) :
                 /\ DelayAlone(results_data[k][1]).exc = ""
                 /\ results_data[k][3] = DelayAlone(results_data[k][1]).val)

\* two different vehicles were analysed one after the other and both delays
\* were recorded, the second being another delay than the first
C15_Witness ==
    /\ pc = "for"
    /\ index = 2
    /\ Len(results_data) = 2
    /\ live_data[1][2] # live_data[2][2]
    /\ results_data[1][3] # results_data[2][3]

---------------------------------------------------------------------------
(* data_collection: the values shared by the collectors *)

analysis == <<bus, routes_data, stops_coords, schedules, point1, point2,
              stops, closest, punctualities, times_at_stops, delays, result>>

AnalysisIdle ==
    /\ bus = [Lines |-> "A", Measurements |-> <<>>]
    /\ routes_data = [l \in Lines |-> <<>>]
    /\ stops_coords = <<>>
    /\ schedules = <<>>
    /\ point1 = <<0, 0>>
    /\ point2 = <<0, 0>>
    /\ stops = <<>>
    /\ closest = <<None, 0>>
    /\ punctualities = <<>>
    /\ times_at_stops = <<>>
    /\ delays = <<>>
    /\ result = NoDelay

---------------------------------------------------------------------------
(* make_safe_request: SpecRequest *)

\* line 38: the status code of a successful request
StatusOK == 200

\* A decoded JSON body: its type and, for a dict, its items
\* <<key, type of the value, value>> (a str as the list of its one text)
Body(type, items) == [type |-> type, items |-> items]

\* Python's None where a body is expected
NoneBody == Body("None", <<>>)

\* what requests.get and the methods of its response do: raise or answer
\* with a status code, and a text that json() decodes to a body or rejects
Response(get_raises, status_code, json_raises, body) ==
    [get_raises |-> get_raises, status_code |-> status_code,
     json_raises |-> json_raises, body |-> body]

\* response.json(): a function of the text of the response
json(resp) ==
    IF resp.json_raises THEN Raises("JSONDecodeError")
    ELSE Returns(resp.body)

\* body['result'], lines 41: TypeError on a list, KeyError without the key
Subscript(body, key) ==
    IF body.type # "dict" THEN Raises("TypeError")
    ELSE IF \A i \in 1..Len(body.items) : body.items[i][1] # key
         THEN Raises("KeyError")
         ELSE LET i == CHOOSE j \in 1..Len(body.items) :
                           body.items[j][1] = key
              IN  Returns(body.items[i][2])

\* a variant of lines 36-47 without the test of the status code
make_safe_request_any_status(resp) ==
    IF resp.get_raises THEN Returns(NoneBody)
    ELSE IF json(resp).exc # "" THEN Returns(NoneBody)
    ELSE IF Subscript(json(resp).val, "result").exc # ""
         THEN Returns(NoneBody)
    ELSE IF Subscript(json(resp).val, "result").val = "str"
         THEN Returns(NoneBody)
    ELSE json(resp)

\* lines 36-47; every exception of lines 37-42 is caught by line 44, the
\* call of json() in line 47 is outside the try
make_safe_request(resp) ==
    IF resp.get_raises THEN Returns(NoneBody)
    ELSE IF resp.status_code # StatusOK THEN Returns(NoneBody)
    ELSE IF json(resp).exc # "" THEN Returns(NoneBody)
    ELSE IF Subscript(json(resp).val, "result").exc # ""
         THEN Returns(NoneBody)
    ELSE IF Subscript(json(resp).val, "result").val = "str"
         THEN Returns(NoneBody)
    ELSE json(resp)

StatusCodes == {200, 400, 404, 500}

Bodies ==
    {Body("dict", << <<"result", "list", <<"some", "data">>>> >>),
     Body("dict", << <<"result", "list", <<>>>> >>),
     Body("dict", << <<"result", "dict", <<"1", "2">>>> >>),
     Body("dict", << <<"result", "str", <<"an error occured">>>> >>),
     Body("dict", << <<"error", "str", <<"failure">>>>,
                     <<"result", "str", <<"false">>>> >>),
     Body("dict", << <<"error", "str", <<"failure">>>> >>),
     Body("dict", <<>>),
     Body("list", <<>>)}

Responses ==
    {Response(g, c, j, b) : g \in BOOLEAN, c \in StatusCodes, j \in BOOLEAN,
                            b \in Bodies}

InitRequest ==
    /\ AnalysisIdle
    /\ response \in Responses
    /\ returned = NoneBody
    /\ live_data = <<>>
    /\ results_data = <<>>
    /\ all_delays = <<>>
    /\ data = <<>>
    /\ stops_data = <<>>
    /\ LiveIdle
    /\ futures = <<>>
    /\ processed_data = <<>>
    /\ schedule_data = <<>>
    /\ all_lines = {}
    /\ index = 0
    /\ file = <<>>
    /\ exc = ""
    /\ pc = "make_safe_request"

MakeSafeRequest ==
    /\ pc = "make_safe_request"
    /\ LET r == make_safe_request(response) IN
       IF r.exc # ""
       THEN exc' = r.exc /\ pc' = "raised" /\ UNCHANGED returned
       ELSE returned' = r.val /\ pc' = "returned" /\ UNCHANGED exc
    /\ UNCHANGED <<analysis, live_data, results_data, all_delays, response,
                   data, stops_data, live, futures, processed_data, schedule_data,
                   all_lines, index, file>>

NextRequest == MakeSafeRequest

SpecRequest == InitRequest /\ [][NextRequest]_vars

---------------------------------------------------------------------------
(* Properties of make_safe_request *)

HasResult(body) ==
    /\ body.type = "dict"
    /\ \E i \in 1..Len(body.items) : body.items[i][1] = "result"

ResultIsStr(body) ==
    /\ body.type = "dict"
    /\ \E i \in 1..Len(body.items) :
           body.items[i][1] = "result" /\ body.items[i][2] = "str"

\* C16 (as claimed): make_safe_request never raises; it returns None when
\* the status code is not 200, when 'result' is a string or when the request
\* or the decoding raises, and the decoded body in every other case.
C16_NoneOnStatusStringOrException ==
    pc # "make_safe_request"
        => /\ pc = "returned"
           /\ exc = ""
           /\ IF \/ response.get_raises
                 \/ response.status_code # 200
                 \/ response.json_raises
                 \/ ResultIsStr(response.body)
              THEN returned = NoneBody
              ELSE returned = response.body

\* C16 (amended): make_safe_request never raises; it returns None when the
\* request raises, when the status code is not 200, when the decoding
\* raises, when the body is not a dict with a 'result' entry, or when
\* 'result' is a string, and the decoded body in every other case.
C16_NoneAlsoWithoutResult ==
    pc # "make_safe_request"
        => /\ pc = "returned"
           /\ exc = ""
           /\ IF \/ response.get_raises
                 \/ response.status_code # 200
                 \/ response.json_raises
                 \/ ~HasResult(response.body)
                 \/ ResultIsStr(response.body)
              THEN returned = NoneBody
              ELSE returned = response.body

\* a response with status 200 whose text decodes to a dict without 'result'
\* was answered with None
C16_Witness ==
    /\ pc = "returned"
    /\ ~response.get_raises
    /\ response.status_code = 200
    /\ ~response.json_raises
    /\ response.body.type = "dict"
    /\ ~HasResult(response.body)
    /\ returned = NoneBody

---------------------------------------------------------------------------
(* The thread pool of collect_stops_data and collect_schedule_data *)

\* lines 64 and 121: the number of worker threads
max_workers == 64

\* how often a request of one task may be answered with None
MaxFailures == 1

\* executor.submit: the future of a call with the arguments args; i counts
\* the answers None, answer is the answer that was not None
Future(args) == [args |-> args, state |-> "queued", i |-> 0, answer |-> <<>>]

\* a worker takes the call that has waited longest when a thread is free
CanStart(k) ==
    /\ futures[k].state = "queued"
    /\ \A j \in 1..(k - 1) : futures[j].state # "queued"
    /\ Cardinality({j \in 1..Len(futures) :
                        futures[j].state \in {"running", "answered"}})
           < max_workers

AllDone == \A k \in 1..Len(futures) : futures[k].state = "done"

\* the value of the last pair with the key in a list of key/value pairs
\* (a dict comprehension keeps the last)
ValueOf(values, key) ==
    LET i == CHOOSE j \in 1..Len(values) :
                 /\ values[j].key = key
                 /\ \A l \in (j + 1)..Len(values) : values[l].key # key
    IN  values[i].value

---------------------------------------------------------------------------
(* collect_schedule_data: SpecSchedules *)

\* one entry of the 'result' of get_schedule_data
ApiDeparture(brigade, time) ==
    [values |-> <<[key |-> "symbol_2", value |-> "null"],
                  [key |-> "brygada", value |-> brigade],
                  [key |-> "kierunek", value |-> "Centrum"],
                  [key |-> "trasa", value |-> "TP-CEN"],
                  [key |-> "czas", value |-> time]>>]

\* the answers of get_schedule_data that are not None
ApiSchedules ==
    {<<>>, <<ApiDeparture("1", "12:00:00"), ApiDeparture("2", "12:30:00")>>}

\* lines 105-112
ScheduleOfAnswer(schedule) ==
    [n \in 1..Len(schedule) |->
        [time |-> ValueOf(schedule[n].values, "czas"),
         direction |-> ValueOf(schedule[n].values, "kierunek"),
         route |-> ValueOf(schedule[n].values, "trasa"),
         brigade |-> ValueOf(schedule[n].values, "brygada")]]

\* lines 114-119
ScheduleRecord(item, line, schedule) ==
    [busstop_id |-> item.busstop_id, busstop_nr |-> item.busstop_nr,
     line |-> line, schedule |-> ScheduleOfAnswer(schedule)]

\* line 123: the calls in the order of their submission
RECURSIVE LineTasks(_)
LineTasks(items) ==
    IF items = <<>> THEN <<>>
    ELSE [n \in 1..Len(items[1].lines) |-> <<items[1], items[1].lines[n]>>]
             \o LineTasks(Tail(items))

StopItem(busstop_id, busstop_nr, lines) ==
    [busstop_id |-> busstop_id, busstop_nr |-> busstop_nr, lines |-> lines]

\* contents of stops.json
StopsFiles ==
    {<<>>,
     <<StopItem("123", "01", <<"A">>), StopItem("456", "02", <<"B">>)>>,
     <<StopItem("123", "01", <<"A", "B">>), StopItem("456", "02", <<>>),
       StopItem("789", "01", <<"A">>)>>}

InitSchedules ==
    /\ AnalysisIdle
    /\ stops_data \in StopsFiles
    /\ LiveIdle
    /\ schedule_data = <<>>
    /\ futures = <<>>
    /\ file = <<>>
    /\ live_data = <<>>
    /\ results_data = <<>>
    /\ all_delays = <<>>
    /\ response = <<>>
    /\ returned = <<>>
    /\ data = <<>>
    /\ processed_data = <<>>
    /\ all_lines = {}
    /\ index = 0
    /\ exc = ""
    /\ pc = "submit"

\* the variables collect_schedule_data leaves alone
besideSchedules ==
    <<analysis, live_data, results_data, all_delays, response, returned, data,
      stops_data, live, processed_data, all_lines, index, exc>>

\* lines 122-123: the next call is submitted, or the list is complete
SubmitLine ==
    /\ pc = "submit"
    /\ IF Len(futures) < Len(LineTasks(stops_data))
       THEN /\ futures' =
                   Append(futures,
                          Future(LineTasks(stops_data)[Len(futures) + 1]))
            /\ pc' = pc
       ELSE /\ pc' = "as_completed"
            /\ futures' = futures
    /\ UNCHANGED <<besideSchedules, schedule_data, file>>

\* a worker thread starts process_line
StartLine(k) ==
    /\ CanStart(k)
    /\ futures' = [futures EXCEPT ![k].state = "running"]
    /\ UNCHANGED <<besideSchedules, schedule_data, file, pc>>

\* lines 91-101: get_schedule_data answers None and is called again, or
\* answers with a schedule
RequestSchedule(k) ==
    /\ futures[k].state = "running"
    /\ \/ /\ futures[k].i < MaxFailures
          /\ futures' = [futures EXCEPT ![k].i = @ + 1]
       \/ \E schedule \in ApiSchedules :
              futures' = [futures EXCEPT ![k].state = "answered",
                                         ![k].answer = schedule]
    /\ UNCHANGED <<besideSchedules, schedule_data, file, pc>>

\* lines 103-119: the record is appended to the list all threads share
AppendSchedule(k) ==
    /\ futures[k].state = "answered"
    /\ schedule_data' =
           Append(schedule_data,
                  ScheduleRecord(futures[k].args[1], futures[k].args[2],
                                 futures[k].answer))
    /\ futures' = [futures EXCEPT ![k].state = "done"]
    /\ UNCHANGED <<besideSchedules, file, pc>>

\* lines 125-131: every future has its result, the list is written
WriteSchedules ==
    /\ pc = "as_completed"
    /\ AllDone
    /\ file' = schedule_data
    /\ pc' = "written"
    /\ UNCHANGED <<besideSchedules, futures, schedule_data>>

NextSchedules ==
    \/ SubmitLine
    \/ \E k \in 1..Len(futures) : StartLine(k)
    \/ \E k \in 1..Len(futures) : RequestSchedule(k)
    \/ \E k \in 1..Len(futures) : AppendSchedule(k)
    \/ WriteSchedules

SpecSchedules == InitSchedules /\ [][NextSchedules]_vars

---------------------------------------------------------------------------
(* Properties of collect_schedule_data *)

\* C17 (as claimed): whatever the interleaving of the worker threads,
\* schedules.json holds the records in the order the calls were submitted:
\* the stops in the order of stops.json, the lines of a stop in the order of
\* its list.
C17_RecordsInSubmitOrder ==
    pc = "written"
        => /\ Len(file) = Len(LineTasks(stops_data))
           /\ \A k \in 1..Len(file) :
                  /\ file[k].busstop_id
                         = LineTasks(stops_data)[k][1].busstop_id
                  /\ file[k].busstop_nr
                         = LineTasks(stops_data)[k][1].busstop_nr
                  /\ file[k].line = LineTasks(stops_data)[k][2]

---------------------------------------------------------------------------
(* collect_stops_data: SpecStops *)

\* what get_stops_data, get_lines_data and get_routes_data return: None, or
\* a body with a list under 'result'
Answer(list) == [ok |-> TRUE, result |-> list]

NoAnswer == [ok |-> FALSE, result |-> <<>>]

\* one item of the 'result' of get_stops_data
ApiStop(zespol, slupek, nazwa, szer, dlug) ==
    [values |-> <<[key |-> "zespol", value |-> zespol],
                  [key |-> "slupek", value |-> slupek],
                  [key |-> "nazwa_zespolu", value |-> nazwa],
                  [key |-> "id_ulicy", value |-> "1203"],
                  [key |-> "szer_geo", value |-> szer],
                  [key |-> "dlug_geo", value |-> dlug]>>]

\* one entry of the 'result' of get_lines_data
ApiLine(line) == [values |-> <<[key |-> "linia", value |-> line]>>]

\* the answers of get_lines_data that are not None
ApiLines ==
    {<<>>, <<ApiLine("A")>>, <<ApiLine("B"), ApiLine("A")>>}

\* line 58
StopLines(lines_data) ==
    [n \in 1..Len(lines_data) |-> lines_data[n].values[1].value]

\* lines 37-46 and 61: the record of a stop
StopRecord(item, lines_data) ==
    [busstop_id |-> ValueOf(item.values, "zespol"),
     busstop_nr |-> ValueOf(item.values, "slupek"),
     name |-> ValueOf(item.values, "nazwa_zespolu"),
     lon |-> ValueOf(item.values, "dlug_geo"),
     lat |-> ValueOf(item.values, "szer_geo"),
     lines |-> StopLines(lines_data)]

ApiStops ==
    <<ApiStop("1001", "01", "Kijowska", "52.24", "21.04"),
      ApiStop("1001", "02", "Kijowska", "52.25", "21.04"),
      ApiStop("2002", "01", "Centrum", "52.23", "21.01")>>

\* the answers of get_stops_data
StopsAnswers ==
    {NoAnswer, Answer(<<>>), Answer(SubSeq(ApiStops, 1, 2)), Answer(ApiStops)}

InitStops ==
    /\ AnalysisIdle
    /\ data \in StopsAnswers
    /\ processed_data = <<>>
    /\ all_lines = {}
    /\ futures = <<>>
    /\ file = <<>>
    /\ live_data = <<>>
    /\ results_data = <<>>
    /\ all_delays = <<>>
    /\ response = <<>>
    /\ returned = <<>>
    /\ stops_data = <<>>
    /\ LiveIdle
    /\ schedule_data = <<>>
    /\ index = 0
    /\ exc = ""
    /\ pc = "submit"

\* the variables collect_stops_data leaves alone
besideStops ==
    <<analysis, live_data, results_data, all_delays, response, returned, data,
      stops_data, live, schedule_data, index>>

\* lines 65-66: data['result'] raises when get_stops_data returned None;
\* else the next call is submitted, or the list is complete
SubmitItem ==
    /\ pc = "submit"
    /\ IF ~data.ok
       THEN /\ exc' = "TypeError"
            /\ pc' = "raised"
            /\ futures' = futures
       ELSE IF Len(futures) < Len(data.result)
       THEN /\ futures' =
                   Append(futures, Future(<<data.result[Len(futures) + 1]>>))
            /\ UNCHANGED <<pc, exc>>
       ELSE /\ pc' = "as_completed"
            /\ UNCHANGED <<futures, exc>>
    /\ UNCHANGED <<besideStops, processed_data, all_lines, file>>

\* a worker thread starts process_item
StartItem(k) ==
    /\ CanStart(k)
    /\ futures' = [futures EXCEPT ![k].state = "running"]
    /\ UNCHANGED <<besideStops, processed_data, all_lines, file, pc, exc>>

\* lines 48-55: get_lines_data answers None and is called again, or answers
\* with the lines of the stop
RequestLines(k) ==
    /\ futures[k].state = "running"
    /\ \/ /\ futures[k].i < MaxFailures
          /\ futures' = [futures EXCEPT ![k].i = @ + 1]
       \/ \E lines_data \in ApiLines :
              futures' = [futures EXCEPT ![k].state = "answered",
                                         ![k].answer = lines_data]
    /\ UNCHANGED <<besideStops, processed_data, all_lines, file, pc, exc>>

\* a variant of line 62 that puts the record in place of the last one
AppendItemOverLast(k) ==
    /\ futures[k].state = "answered"
    /\ all_lines' = all_lines \cup
           {StopLines(futures[k].answer)[n] :
                n \in 1..Len(futures[k].answer)}
    /\ processed_data' =
           <<StopRecord(futures[k].args[1], futures[k].answer)>>
    /\ futures' = [futures EXCEPT ![k].state = "done"]
    /\ UNCHANGED <<besideStops, file, pc, exc>>

\* lines 57-62: the lines join all_lines and the record is appended to the
\* list all threads share
AppendItem(k) ==
    /\ futures[k].state = "answered"
    /\ all_lines' = all_lines \cup
           {StopLines(futures[k].answer)[n] :
                n \in 1..Len(futures[k].answer)}
    /\ processed_data' =
           Append(processed_data,
                  StopRecord(futures[k].args[1], futures[k].answer))
    /\ futures' = [futures EXCEPT ![k].state = "done"]
    /\ UNCHANGED <<besideStops, file, pc, exc>>

\* lines 68-74: every future has its result, the list is written
WriteStops ==
    /\ pc = "as_completed"
    /\ AllDone
    /\ file' = processed_data
    /\ pc' = "written"
    /\ UNCHANGED <<besideStops, futures, processed_data, all_lines, exc>>

NextStops ==
    \/ SubmitItem
    \/ \E k \in 1..Len(futures) : StartItem(k)
    \/ \E k \in 1..Len(futures) : RequestLines(k)
    \/ \E k \in 1..Len(futures) : AppendItem(k)
    \/ WriteStops

SpecStops == InitStops /\ [][NextStops]_vars

---------------------------------------------------------------------------
(* Properties of collect_stops_data *)

\* the value the API gave under the key in the item
Given(item, key) ==
    LET i == CHOOSE j \in 1..Len(item.values) : item.values[j].key = key
    IN  item.values[i].value

\* the positions in stops.json of the records of the stop of the item
RecordsOf(item) ==
    {n \in 1..Len(file) :
         /\ file[n].busstop_id = Given(item, "zespol")
         /\ file[n].busstop_nr = Given(item, "slupek")}

\* C18: under every interleaving of the worker threads and any number of
\* answers None, stops.json holds exactly one record per stop of the API's
\* list, none lost and none twice, and the record of a stop carries the
\* lines of the first answer of get_lines_data for it that was not None.
C18_OneRecordPerStop ==
    pc = "written"
        => /\ Len(file) = Len(data.result)
           /\ \A k \in 1..Len(data.result) :
                  /\ Cardinality(RecordsOf(data.result[k])) = 1
                  /\ \A n \in RecordsOf(data.result[k]) :
                         /\ Len(file[n].lines) = Len(futures[k].answer)
                         /\ \A l \in 1..Len(futures[k].answer) :
                                file[n].lines[l] =
                                    futures[k].answer[l].values[1].value

\* three stops were written in another order than the API listed them, the
\* first of the list after an answer None and with two lines
C18_Witness ==
    /\ pc = "written"
    /\ Len(file) = 3
    /\ file[3].busstop_id = Given(data.result[1], "zespol")
    /\ file[3].busstop_nr = Given(data.result[1], "slupek")
    /\ futures[1].i > 0
    /\ file[3].lines = <<"B", "A">>

---------------------------------------------------------------------------
(* process_measurements: SpecMeasurements *)

MaxFiles == 3

\* Python's order of the str values used as 'Time'
TimeOrder ==
    <<"2024-02-21 11:59:50", "2024-02-21 12:00:00", "2024-02-21 12:00:10",
      "21.02.2024 11:00">>

TimeRank(x) == CHOOSE i \in 1..Len(TimeOrder) : TimeOrder[i] = x

\* one item of the 'result' of a snapshot of the live data
LiveItem(vehicle_number, lines, brigade, time, lat, lon) ==
    [VehicleNumber |-> vehicle_number, Lines |-> lines, Brigade |-> brigade,
     Time |-> time, Lat |-> lat, Lon |-> lon]

\* a JSON file of the directory: whether it has 'result', whether 'result'
\* is a list, and the values in 'result'
Snapshot(has_result, is_list, values) ==
    [has_result |-> has_result, is_list |-> is_list, result |-> values]

Snapshots ==
    {Snapshot(TRUE, TRUE,
              <<LiveItem("1001", "A", "1", "2024-02-21 12:00:00", 1, 1),
                LiveItem("1002", "B", "2", "2024-02-21 11:59:50", 2, 2)>>),
     Snapshot(TRUE, TRUE,
              <<LiveItem("1001", "C", "3", "2024-02-21 11:59:50", 0, 1),
                LiveItem("1001", "C", "3", "2024-02-21 11:59:50", 0, 0),
                LiveItem("1002", "B", "2", "21.02.2024 11:00", 2, 3)>>),
     Snapshot(TRUE, TRUE,
              <<LiveItem("1002", "B", "5", "2024-02-21 12:00:10", 2, 4),
                LiveItem("1001", "A", "1", "2024-02-21 12:00:00", 1, 1)>>),
     Snapshot(TRUE, FALSE,
              <<LiveItem("1003", "D", "1", "2024-02-21 12:00:00", 3, 3)>>),
     Snapshot(FALSE, FALSE, <<>>)}

\* lines 168-172
MeasurementOf(item) == [Time |-> item.Time, Lat |-> item.Lat, Lon |-> item.Lon]

\* lines 160-172 for one item; the dict processed_data is the sequence of
\* its items <<vehicle_number, entry>> in insertion order
AddItem(dict, item) ==
    IF HasKey(dict, item.VehicleNumber)
    THEN LET i == IndexOf(dict, item.VehicleNumber) IN
         [dict EXCEPT ![i][2].Measurements = Append(@, MeasurementOf(item))]
    ELSE Append(dict,
                <<item.VehicleNumber,
                  [Lines |-> item.Lines, Brigade |-> item.Brigade,
                   Measurements |-> <<MeasurementOf(item)>>]>>)

\* the for loop of lines 159-172
RECURSIVE ItemsLoop(_, _, _)
ItemsLoop(items, n, dict) ==
    IF n > Len(items) THEN dict
    ELSE ItemsLoop(items, n + 1, AddItem(dict, items[n]))

\* a variant of the sort key that tells no measurement from another
TimeLessNever(a, b) == FALSE

\* the key of line 176
TimeLess(a, b) == TimeRank(a.Time) < TimeRank(b.Time)

RECURSIVE InsertByTime(_, _)
InsertByTime(s, x) ==
    IF s = <<>> THEN <<x>>
    ELSE IF TimeLess(x, s[1]) THEN <<x>> \o s
         ELSE <<s[1]>> \o InsertByTime(Tail(s), x)

\* sorted(list, key=lambda x: x['Time']): a stable sort
RECURSIVE sortedByTime(_)
sortedByTime(s) ==
    IF s = <<>> THEN <<>>
    ELSE InsertByTime(sortedByTime(SubSeq(s, 1, Len(s) - 1)), s[Len(s)])

\* os.listdir gives the files in any order
Listings ==
    {s \in SeqUpTo(Snapshots, MaxFiles) :
         \A i, j \in 1..Len(s) : i # j => s[i] # s[j]}

InitMeasurements ==
    /\ AnalysisIdle
    /\ data \in Listings
    /\ processed_data = <<>>
    /\ index = 0
    /\ file = <<>>
    /\ live_data = <<>>
    /\ results_data = <<>>
    /\ all_delays = <<>>
    /\ response = <<>>
    /\ returned = <<>>
    /\ stops_data = <<>>
    /\ LiveIdle
    /\ futures = <<>>
    /\ schedule_data = <<>>
    /\ all_lines = {}
    /\ exc = ""
    /\ pc = "listdir"

\* the variables process_measurements leaves alone
besideMeasurements ==
    <<analysis, live_data, results_data, all_delays, response, returned, data,
      stops_data, live, futures, schedule_data, all_lines>>

\* lines 148-172: the next file is read, or the loop ends
ReadSnapshot ==
    /\ pc = "listdir"
    /\ IF index = Len(data)
       THEN /\ pc' = "sort"
            /\ UNCHANGED <<index, processed_data, exc>>
       ELSE IF ~data[index + 1].has_result
       THEN /\ exc' = "AssertionError"
            /\ pc' = "raised"
            /\ UNCHANGED <<index, processed_data>>
       ELSE /\ index' = index + 1
            /\ processed_data' =
                   IF data[index + 1].is_list
                   THEN ItemsLoop(data[index + 1].result, 1, processed_data)
                   ELSE processed_data
            /\ UNCHANGED <<pc, exc>>
    /\ UNCHANGED <<besideMeasurements, file>>

\* lines 174-176
SortMeasurements ==
    /\ pc = "sort"
    /\ processed_data' =
           [i \in 1..Len(processed_data) |->
               <<processed_data[i][1],
                 [processed_data[i][2] EXCEPT
                      !.Measurements = sortedByTime(@)]>>]
    /\ pc' = "dump"
    /\ UNCHANGED <<besideMeasurements, index, file, exc>>

\* lines 178-179
WriteProcessed ==
    /\ pc = "dump"
    /\ file' = processed_data
    /\ pc' = "written"
    /\ UNCHANGED <<besideMeasurements, index, processed_data, exc>>

NextMeasurements ==
    \/ ReadSnapshot
    \/ SortMeasurements
    \/ WriteProcessed

SpecMeasurements == InitMeasurements /\ [][NextMeasurements]_vars

---------------------------------------------------------------------------
(* Properties of process_measurements *)

\* the items of the files whose 'result' is a list, as <<file, position>>,
\* of one vehicle
ItemsOf(vehicle_number) ==
    UNION {{<<f, n>> : n \in {l \in 1..Len(data[f].result) :
                                  /\ data[f].is_list
                                  /\ data[f].result[l].VehicleNumber
                                         = vehicle_number}} :
               f \in 1..Len(data)}

\* the item the loops of lines 148 and 159 meet first
FirstItemOf(vehicle_number) ==
    CHOOSE p \in ItemsOf(vehicle_number) :
        \A q \in ItemsOf(vehicle_number) :
            p[1] < q[1] \/ (p[1] = q[1] /\ p[2] <= q[2])

VehicleNumbers == {"1001", "1002", "1003"}

\* C19: processed.json has an entry for exactly the vehicles with an item in
\* a file whose 'result' is a list; the entry holds each such item of the
\* vehicle exactly once as a measurement, has Lines and Brigade of the first
\* item met, and its Measurements are in non-decreasing order of Time.
C19_EveryItemOnceSortedByTime ==
    pc = "written"
        => /\ {file[i][1] : i \in 1..Len(file)}
                  = {v \in VehicleNumbers : ItemsOf(v) # {}}
           /\ \A i, j \in 1..Len(file) : file[i][1] = file[j][1] => i = j
           /\ \A i \in 1..Len(file) :
                  LET entry == file[i][2]
                      items == ItemsOf(file[i][1])
                      first == FirstItemOf(file[i][1])
                  IN  /\ Len(entry.Measurements) = Cardinality(items)
                      /\ \A m \in {MeasurementOf(data[p[1]].result[p[2]]) :
                                       p \in items} :
                             Cardinality({n \in 1..Len(entry.Measurements) :
                                              entry.Measurements[n] = m})
                                 = Cardinality(
                                       {p \in items :
                                            MeasurementOf(
                                                data[p[1]].result[p[2]]) = m})
                      /\ entry.Lines = data[first[1]].result[first[2]].Lines
                      /\ entry.Brigade = data[first[1]].result[first[2]].Brigade
                      /\ \A n \in 1..(Len(entry.Measurements) - 1) :
                             TimeRank(entry.Measurements[n].Time)
                                 <= TimeRank(entry.Measurements[n + 1].Time)

\* a file whose 'result' is no list was passed over, and a vehicle met with
\* different Lines in two files kept the first and had its measurements
\* appended out of order, two of them with the same Time
C19_Witness ==
    /\ pc = "written"
    /\ \E f \in 1..Len(data) : ~data[f].is_list /\ data[f].result # <<>>
    /\ \E i \in 1..Len(file) :
           /\ file[i][1] = "1001"
           /\ file[i][2].Lines = "A"
           /\ Len(file[i][2].Measurements) = 3
           /\ file[i][2].Measurements[1].Time = "2024-02-21 11:59:50"
           /\ file[i][2].Measurements[2].Time = "2024-02-21 11:59:50"
           /\ file[i][2].Measurements[1] # file[i][2].Measurements[2]
           /\ file[i][2].Measurements[3].Time = "2024-02-21 12:00:00"

---------------------------------------------------------------------------
(* collect_routes_data: SpecRoutes *)

\* the texts int() reads as 0, 1, 2, ...
Decimals == <<"0", "1", "2", "3", "4", "5">>

int_raises(text) == \A i \in 1..Len(Decimals) : Decimals[i] # text

int(text) == (CHOOSE i \in 1..Len(Decimals) : Decimals[i] = text) - 1

\* the value of a position key in the 'result' of get_routes_data
ApiRouteStop(nr_zespolu, nr_przystanku) ==
    [odleglosc |-> "0", ulica_id |-> "1203", nr_zespolu |-> nr_zespolu,
     typ |-> "1", nr_przystanku |-> nr_przystanku]

\* the {} of line 246
EmptyDict == Stop("{}", "{}")

\* a variant that takes the number of the stop for the id of its group
RouteStopSwapped(val) == Stop(val.nr_przystanku, val.nr_zespolu)

\* lines 249-252
RouteStop(val) == Stop(val.nr_zespolu, val.nr_przystanku)

\* the for loop of lines 247-252 over the items <<key, val>> of a route,
\* from item n on, with the list built so far
RECURSIVE PositionsLoop(_, _, _)
PositionsLoop(route, n, list) ==
    IF n > Len(route) THEN Returns(list)
    ELSE IF int_raises(route[n][1]) THEN Raises("ValueError")
    ELSE IF ~(0 <= int(route[n][1]) - 1 /\ int(route[n][1]) - 1 < Len(route))
         THEN Raises("AssertionError")
    ELSE PositionsLoop(route, n + 1,
                       [list EXCEPT ![int(route[n][1])] =
                                        RouteStop(route[n][2])])

\* lines 246-252 for one route
RouteList(route) ==
    PositionsLoop(route, 1, [n \in 1..Len(route) |-> EmptyDict])

\* the for loop of lines 245-252 over the items <<name, route>> of a line
RECURSIVE LineRoutesLoop(_, _, _)
LineRoutesLoop(routes, n, dict) ==
    IF n > Len(routes) THEN Returns(dict)
    ELSE LET r == RouteList(routes[n][2]) IN
         IF r.exc # "" THEN Raises(r.exc)
         ELSE LineRoutesLoop(routes, n + 1,
                             Append(dict, <<routes[n][1], r.val>>))

\* the for loop of lines 243-252 over the items <<line, routes>>
RECURSIVE LinesLoop(_, _, _)
LinesLoop(lines, n, dict) ==
    IF n > Len(lines) THEN Returns(dict)
    ELSE LET r == LineRoutesLoop(lines[n][2], 1, <<>>) IN
         IF r.exc # "" THEN Raises(r.exc)
         ELSE LinesLoop(lines, n + 1, Append(dict, <<lines[n][1], r.val>>))

\* routes of the API: the position keys in the order of the JSON text
ApiRoutes ==
    {<<>>,
     << <<"1", ApiRouteStop("1001", "01")>>,
        <<"2", ApiRouteStop("1001", "02")>> >>,
     << <<"2", ApiRouteStop("2002", "01")>>,
        <<"1", ApiRouteStop("1001", "01")>>,
        <<"3", ApiRouteStop("1001", "02")>> >>,
     << <<"1", ApiRouteStop("1001", "01")>>,
        <<"3", ApiRouteStop("1001", "02")>> >>,
     << <<"0", ApiRouteStop("1001", "01")>>,
        <<"1", ApiRouteStop("1001", "02")>> >>,
     << <<"x", ApiRouteStop("1001", "01")>> >>}

RouteNames == <<"TP-A", "TP-B", "TP-C", "TP-D">>

\* the routes of a line under their names
LineRoutes ==
    {[n \in 1..Len(s) |-> <<RouteNames[n], s[n]>>] :
         s \in SeqUpTo(ApiRoutes, MaxRoutes)}

\* the 'result' of get_routes_data
RoutesResults ==
    {<< <<"A", r>> >> : r \in LineRoutes}
        \cup {<< <<"B", << <<"TP-A", <<>>>> >> >>, <<"A", r>> >> :
                  r \in LineRoutes}

InitRoutes ==
    /\ AnalysisIdle
    /\ response \in {Answer(r) : r \in RoutesResults}
    /\ data = NoAnswer
    /\ index = 0
    /\ processed_data = <<>>
    /\ file = <<>>
    /\ live_data = <<>>
    /\ results_data = <<>>
    /\ all_delays = <<>>
    /\ returned = <<>>
    /\ stops_data = <<>>
    /\ LiveIdle
    /\ futures = <<>>
    /\ schedule_data = <<>>
    /\ all_lines = {}
    /\ exc = ""
    /\ pc = "get_routes_data"

\* the variables collect_routes_data leaves alone
besideRoutes ==
    <<analysis, live_data, results_data, all_delays, response, returned,
      stops_data, live, futures, schedule_data, all_lines>>

\* lines 234-237: get_routes_data answers None and is called again, or
\* answers
RequestRoutes ==
    /\ pc = "get_routes_data"
    /\ \/ /\ index < MaxFailures
          /\ index' = index + 1
          /\ UNCHANGED <<data, pc>>
       \/ /\ data' = response
          /\ pc' = "for"
          /\ index' = index
    /\ UNCHANGED <<besideRoutes, processed_data, file, exc>>

\* lines 239-252
ProcessRoutes ==
    /\ pc = "for"
    /\ LET r == LinesLoop(data.result, 1, <<>>) IN
       IF r.exc # ""
       THEN exc' = r.exc /\ pc' = "raised" /\ UNCHANGED processed_data
       ELSE processed_data' = r.val /\ pc' = "dump" /\ UNCHANGED exc
    /\ UNCHANGED <<besideRoutes, data, index, file>>

\* lines 254-255
WriteRoutes ==
    /\ pc = "dump"
    /\ file' = processed_data
    /\ pc' = "written"
    /\ UNCHANGED <<besideRoutes, data, index, processed_data, exc>>

NextRoutes ==
    \/ RequestRoutes
    \/ ProcessRoutes
    \/ WriteRoutes

SpecRoutes == InitRoutes /\ [][NextRoutes]_vars

---------------------------------------------------------------------------
(* Properties of collect_routes_data *)

\* the position a key names
Position(key) == CHOOSE n \in 0..5 : Decimals[n + 1] = key

\* the keys of the route are the texts of 1..n
KeysAreOneToN(route) ==
    /\ \A p \in 1..Len(route) : ~int_raises(route[p][1])
    /\ {Position(route[p][1]) : p \in 1..Len(route)} = 1..Len(route)

\* C20: routes.json has, for every route of every line of the API's answer,
\* a list as long as the route's mapping of position keys in which the stop
\* of key k is at index k - 1 (the k-th element) as the pair of busstop_id
\* and busstop_nr; when the keys are exactly 1..n, no element of the list
\* is the placeholder {}.
C20_StopOfKeyAtItsPosition ==
    pc = "written"
        => /\ Len(file) = Len(data.result)
           /\ \A i \in 1..Len(file) :
                  /\ file[i][1] = data.result[i][1]
                  /\ Len(file[i][2]) = Len(data.result[i][2])
                  /\ \A j \in 1..Len(file[i][2]) :
                         LET route == data.result[i][2][j][2]
                             list == file[i][2][j][2]
                         IN  /\ file[i][2][j][1] = data.result[i][2][j][1]
                             /\ Len(list) = Len(route)
                             /\ \A p \in 1..Len(route) :
                                    /\ list[Position(route[p][1])].busstop_id
                                           = route[p][2].nr_zespolu
                                    /\ list[Position(route[p][1])].busstop_nr
                                           = route[p][2].nr_przystanku
                             /\ KeysAreOneToN(route)
                                    => \A n \in 1..Len(list) :
                                           list[n] # EmptyDict

\* after an answer None, a route whose keys came in the order 2, 1, 3 was
\* written
C20_Witness ==
    /\ pc = "written"
    /\ index > 0
    /\ \E i \in 1..Len(file) : \E j \in 1..Len(file[i][2]) :
           /\ Len(file[i][2][j][2]) = 3
           /\ data.result[i][2][j][2][1][1] = "2"
           /\ file[i][2][j][2][1] = Stop("1001", "01")
           /\ file[i][2][j][2][2] = Stop("2002", "01")

---------------------------------------------------------------------------
(* Further properties of get_times_at_stops *)

\* the positions in the input of the estimates of stop key k
EstimatesOf(k) ==
    {i \in 1..Len(punctualities) : Key(punctualities[i][2]) = k}

\* the first of the estimates of stop key k that no other one of k
\* undercuts in distance
KeptEstimate(k) ==
    CHOOSE i \in EstimatesOf(k) :
        /\ \A j \in EstimatesOf(k) : punctualities[i][3] <= punctualities[j][3]
        /\ \A j \in EstimatesOf(k) :
               punctualities[j][3] = punctualities[i][3] => i <= j

\* C21: the visit get_times_at_stops returns for a stop key carries the
\* time of the estimate with the smallest distance among the estimates of
\* that key, and of the earliest of them in the input when several have
\* that smallest distance; every key of the input has a visit.
C21_KeptIsEarliestOfSmallestDistance ==
    pc = "get_list_delays"
        => /\ {times_at_stops[n][2] : n \in 1..Len(times_at_stops)}
                  = {Key(punctualities[i][2]) : i \in 1..Len(punctualities)}
           /\ \A n \in 1..Len(times_at_stops) :
                  times_at_stops[n][1]
                      = punctualities[KeptEstimate(times_at_stops[n][2])][1]

\* three estimates of one stop, the first farther than the two others,
\* which are at the same distance with different times: the second is kept
C21_Witness ==
    /\ pc = "get_list_delays"
    /\ Len(punctualities) = 3
    /\ \A i \in 1..3 : Key(punctualities[i][2]) = Key(punctualities[1][2])
    /\ punctualities[1][3] > punctualities[2][3]
    /\ punctualities[2][3] = punctualities[3][3]
    /\ punctualities[2][1] # punctualities[3][1]
    /\ punctualities[1][1] # punctualities[2][1]
    /\ times_at_stops = <<<<punctualities[2][1], Key(punctualities[2][2])>>>>

---------------------------------------------------------------------------
(* Further properties of get_median_delay on a vehicle *)

\* the timetable has no entry for the stop of the visit and the line
HasNoEntry(visit) ==
    <<visit[2][1], visit[2][2], bus.Lines>> \notin DOMAIN schedules

\* C22: when a visit has no timetable entry for its stop key and the line,
\* get_list_delays raises KeyError and returns no list of delays, and the
\* error leaves get_median_delay, which returns nothing; KeyError comes from
\* nowhere else.
C22_MissingEntryRaises ==
    /\ (/\ pc \in {"median", "returned", "raised"}
        /\ \E n \in 1..Len(times_at_stops) : HasNoEntry(times_at_stops[n]))
           => /\ pc = "raised"
              /\ exc = "KeyError"
              /\ delays = <<>>
              /\ result = NoDelay
    /\ exc = "KeyError"
           => \E n \in 1..Len(times_at_stops) : HasNoEntry(times_at_stops[n])

\* the first visit has a timetable entry with a scheduled time after it,
\* the second has no entry, and KeyError left get_median_delay
C22_Witness ==
    /\ pc = "raised"
    /\ exc = "KeyError"
    /\ Len(times_at_stops) = 2
    /\ ~HasNoEntry(times_at_stops[1])
    /\ Candidates(times_at_stops[1]) # {}
    /\ HasNoEntry(times_at_stops[2])

\* the point of the i-th measurement of the vehicle
PointOf(i) == <<bus.Measurements[i].Lon, bus.Measurements[i].Lat>>

\* the pair of the measurements i - 1 and i has two timestamps that parse
Parses(i) == i \in ParsingPairs(bus.Measurements)

\* both ends of the pair lie on a stop of the line: at distance zero from it
OnAStop(i) ==
    /\ Parses(i)
    /\ PointOf(i - 1) = PointOf(i)
    /\ \E stop \in KnownOfLine : stops_coords[Key(stop)] = PointOf(i)

\* the locator finds no stop for the pair
FindsNoStop(i) ==
    /\ Parses(i)
    /\ nearest_stop(PointOf(i - 1), PointOf(i), bus.Lines, stops_coords,
                    routes_data)[1] = None

\* C23: when both ends of a segment are at distance zero from the stop the
\* locator finds for it, approx_time_at_stop raises ZeroDivisionError;
\* get_punctualities does not catch it, so no estimate of the trajectory,
\* of the segments before that one either, is returned, and
\* get_median_delay returns nothing. ZeroDivisionError has no other origin.
C23_ZeroDistanceAbortsTrajectory ==
    /\ (/\ pc \notin {"get_median_delay", "get_punctualities"}
        /\ bus.Lines \in DOMAIN routes_data
        /\ \E i \in 2..Len(bus.Measurements) :
               /\ OnAStop(i)
               /\ \A j \in 2..(i - 1) : ~FindsNoStop(j))
           => /\ pc = "raised"
              /\ exc = "ZeroDivisionError"
              /\ punctualities = <<>>
              /\ result = NoDelay
    /\ exc = "ZeroDivisionError"
           => \E i \in 2..Len(bus.Measurements) : OnAStop(i)

\* the first segment of the trajectory gave an estimate, the second has
\* both ends on a stop, and ZeroDivisionError left get_median_delay
C23_Witness ==
    /\ pc = "raised"
    /\ exc = "ZeroDivisionError"
    /\ Len(bus.Measurements) = 3
    /\ Parses(2)
    /\ ~OnAStop(2)
    /\ ~FindsNoStop(2)
    /\ OnAStop(3)

---------------------------------------------------------------------------
(* Further properties of the median *)

\* C25: a value other than None that get_median_delay returns is a number
\* of minutes that is at least 0 and less than 60.
C25_ReturnedMinutesWithinTheHour ==
    (pc = "returned" /\ result # NoDelay)
        => /\ result[2] > 0
           /\ result[1] >= 0
           /\ result[1] < 60 * result[2]

\* a delay was returned, of half an hour or more, for a list with a sample
\* of an hour or more
C25_Witness ==
    /\ pc = "returned"
    /\ result # NoDelay
    /\ result[1] >= 30 * result[2]
    /\ \E i \in 1..Len(delays) : delays[i] >= 3600

---------------------------------------------------------------------------
(* collect_live_data: SpecLive *)

MaxMinutes == 2

\* line 201: the number of retries of one iteration
MaxRepeats == 60

\* line 219: the seconds from one snapshot to the next
Period == 60

\* the answers of get_live_data that are not None
LiveAnswers ==
    {Answer(<<>>),
     Answer(<<LiveItem("1001", "A", "1", "2024-02-21 12:00:00", 1, 1)>>)}

\* a variant of the test of line 201 that allows one more retry
RetriesOnceMore(answer, count) == ~answer.ok /\ count <= MaxRepeats

\* line 201: data is None and repeats < 60
Retries(answer, count) == ~answer.ok /\ count < MaxRepeats

InitLive ==
    /\ AnalysisIdle
    /\ minutes \in 0..MaxMinutes
    /\ index = 0
    /\ repeats = 0
    /\ fetches = <<>>
    /\ calls = 0
    /\ data = NoAnswer
    /\ file = <<>>
    /\ live_data = <<>>
    /\ results_data = <<>>
    /\ all_delays = <<>>
    /\ response = <<>>
    /\ returned = <<>>
    /\ stops_data = <<>>
    /\ futures = <<>>
    /\ processed_data = <<>>
    /\ schedule_data = <<>>
    /\ all_lines = {}
    /\ exc = ""
    /\ pc = "for"

\* the variables collect_live_data leaves alone
besideLive ==
    <<analysis, live_data, results_data, all_delays, response, returned,
      stops_data, futures, processed_data, schedule_data, all_lines, minutes>>

\* line 197: the next iteration begins (index is i + 1), or the loop ends
NextMinute ==
    /\ pc = "for"
    /\ IF index < minutes
       THEN index' = index + 1 /\ pc' = "get_live_data"
       ELSE index' = index /\ pc' = "process_measurements"
    /\ UNCHANGED <<besideLive, data, repeats, fetches, calls, file, exc>>

\* lines 198-199: the first attempt of the iteration
FetchLive ==
    /\ pc = "get_live_data"
    /\ \E answer \in {NoAnswer} \cup LiveAnswers :
           /\ data' = answer
           /\ fetches' = <<answer.ok>>
    /\ repeats' = 0
    /\ pc' = "while"
    /\ UNCHANGED <<besideLive, index, calls, file, exc>>

\* lines 201-204: one more attempt after a second, or the loop ends
RetryLive ==
    /\ pc = "while"
    /\ IF Retries(data, repeats)
       THEN /\ repeats' = repeats + 1
            /\ \E answer \in {NoAnswer} \cup LiveAnswers :
                   /\ data' = answer
                   /\ fetches' = Append(fetches, answer.ok)
            /\ pc' = pc
       ELSE /\ pc' = "if"
            /\ UNCHANGED <<data, repeats, fetches>>
    /\ UNCHANGED <<besideLive, index, calls, file, exc>>

\* lines 206-219: the iteration is skipped when data is None; else the
\* snapshot is written and the rest of the minute is slept (time.sleep
\* raises ValueError for a negative number)
WriteSnapshot ==
    /\ pc = "if"
    /\ IF ~data.ok
       THEN pc' = "for" /\ UNCHANGED <<file, exc>>
       ELSE /\ file' = Append(file, [i |-> index - 1, data |-> data])
            /\ IF index - 1 < minutes - 1 /\ Period - repeats < 0
               THEN exc' = "ValueError" /\ pc' = "raised"
               ELSE exc' = exc /\ pc' = "for"
    /\ UNCHANGED <<besideLive, index, data, repeats, fetches, calls>>

\* line 221
CallProcessMeasurements ==
    /\ pc = "process_measurements"
    /\ calls' = calls + 1
    /\ pc' = "done"
    /\ UNCHANGED <<besideLive, index, data, repeats, fetches, file, exc>>

NextLive ==
    \/ NextMinute
    \/ FetchLive
    \/ RetryLive
    \/ WriteSnapshot
    \/ CallProcessMeasurements

\* every call of the function returns (the requests have a timeout, the
\* sleeps end), so a step that can be taken is taken
SpecLive == InitLive /\ [][NextLive]_vars /\ WF_vars(NextLive)

---------------------------------------------------------------------------
(* Properties of collect_live_data *)

\* the snapshots written in the iteration with loop variable i
WrittenIn(i) == {n \in 1..Len(file) : file[n].i = i}

\* C24: collect_live_data terminates whatever get_live_data answers: an
\* iteration makes at most 61 attempts; an iteration that is over has
\* written one snapshot, that of its attempt that succeeded, when one did,
\* and none after 61 answers None; process_measurements is called exactly
\* once, after the last of the `minutes` iterations.
C24_TerminatesWithinAttempts ==
    /\ [](Len(fetches) <= 61)
    /\ [](\A i \in 0..(minutes - 1) : Cardinality(WrittenIn(i)) <= 1)
    /\ []((pc = "for" /\ index > 0)
              => IF \E n \in 1..Len(fetches) : fetches[n]
                 THEN /\ Cardinality(WrittenIn(index - 1)) = 1
                      /\ \A n \in WrittenIn(index - 1) : file[n].data.ok
                 ELSE /\ WrittenIn(index - 1) = {}
                      /\ Len(fetches) = 61)
    /\ [](calls = IF pc = "done" THEN 1 ELSE 0)
    /\ [](pc = "done" => index = minutes)
    /\ [](exc = "")
    /\ <>(pc = "done")

\* two iterations are over and process_measurements was called: the first
\* was skipped after 61 answers None, the second wrote its snapshot after
\* all 60 retries
C24_Witness ==
    /\ pc = "done"
    /\ calls = 1
    /\ minutes = 2
    /\ Len(file) = 1
    /\ file[1].i = 1
    /\ Len(fetches) = 61
    /\ fetches[61]

===========================================================================
